---- MODULE Spec2Model ----
(***************************************************************************)
(* Lattice-Boltzmann boundary registry and node classification of          *)
(* espresso/src/core/grid_based_algorithms/lb_boundaries.cpp.              *)
(*                                                                         *)
(* Positions and distances are kept as integers in units of half a length  *)
(* unit: a physical value v is stored as 2*v, so the cell-centre offsets   *)
(* +0.5 / -0.5 of the source stay exact.                                   *)
(***************************************************************************)
EXTENDS Integers, Sequences, FiniteSets, TLC

VARIABLES
  lattice_switch,            \* ActiveLB: "NONE", "CPU" or "GPU"
  ek_initialized,            \* electrokinetics active
  valency,                   \* ek_parameters.valency[0 .. number_of_species-1]
  shape,                     \* the geometry behind every boundary handle
  charge,                    \* the charge density set on every boundary handle
  lbboundaries,              \* the registry: sequence of handles
  net_charge,                \* LBBoundary::net_charge() of every handle
  lbfields,                  \* CPU: per rank, per halo-grid index: boundary, slip_velocity
  number_of_boundnodes,      \* GPU: lbpar_gpu.number_of_boundnodes
  host_boundary_node_list,   \* GPU: list handed to lb_init_boundaries_GPU
  host_boundary_index_list,  \* GPU: list handed to lb_init_boundaries_GPU
  boundary_velocity,         \* GPU: velocity table handed to lb_init_boundaries_GPU
  runtime_errors,            \* messages the latest pass sent to runtimeErrorMsg()
  last_call,                 \* <<operation, argument>> of the latest call
  result                     \* outcome of the latest call

vars == <<lattice_switch, ek_initialized, valency, shape, charge, lbboundaries, net_charge,
          lbfields, number_of_boundnodes, host_boundary_node_list,
          host_boundary_index_list, boundary_velocity, runtime_errors,
          last_call, result>>

(***************************************************************************)
(* Bounds of the model.                                                    *)
(***************************************************************************)
MaxBoundaries == 3

(***************************************************************************)
(* Parameters of the lattice and of the process grid.                      *)
(***************************************************************************)
\* lblattice.agrid, lbpar_gpu.agrid and ek_parameters.agrid: one lattice constant
agrid == 2
\* lb_lbfluid_get_tau()
tau == 4
\* sizeof(int)
SizeofInt == 4
\* the initial "no boundary seen" distance, 1e99 in the source
dist_init == 1000000
\* lblattice.grid: the local extent of every rank
grid == <<1, 3, 2>>
\* the process grid whose positions calc_node_pos(comm_cart) returns
node_grid == <<2, 1, 1>>
\* lblattice.halo_grid
halo_grid == <<grid[1] + 2, grid[2] + 2, grid[3] + 2>>
halo_grid_volume == halo_grid[1] * halo_grid[2] * halo_grid[3]
\* lbpar_gpu.dim_x, dim_y, dim_z: the global grid
dim_x == node_grid[1] * grid[1]
dim_y == node_grid[2] * grid[2]
dim_z == node_grid[3] * grid[3]
number_of_nodes == dim_x * dim_y * dim_z
Ranks == 0 .. (node_grid[1] * node_grid[2] * node_grid[3] - 1)

\* calc_node_pos(comm_cart): the rank's position in the (row-major) process grid
calc_node_pos(rank) ==
  << rank \div (node_grid[2] * node_grid[3]),
     (rank \div node_grid[3]) % node_grid[2],
     rank % node_grid[3] >>

\* Utils::get_linear_index(x, y, z, dims)
get_linear_index(x, y, z, dims) == x + dims[1] * (y + dims[2] * z)

(***************************************************************************)
(* Boundary handles (shared pointers to LBBoundary objects).               *)
(***************************************************************************)
Handles == {1, 2}
\* the geometries given to the two handles
ShapeChoices == { <<"wall_x", "wall_y">>, <<"block", "wall_x">>,
                  <<"block", "block">>, <<"wall_y", "block">> }
\* the valency tables of the electrokinetic species
Valencies == { <<0>>, <<0, 2>> }
\* the charge densities given to the two handles
ChargeChoices == { <<2, 1>>, <<2, 0>> }

\* LBBoundary::velocity()
velocity(b) == IF b = 1 THEN <<0, 0, 1>> ELSE <<0, 0, 0>>

\* LBBoundary::charge_density()
charge_density(b) == charge[b]

Abs(a) == IF a < 0 THEN 0 - a ELSE a
Max2(a, b) == IF a < b THEN b ELSE a

\* LBBoundary::calc_dist(pos, dist, dist_vec): the signed distance of the
\* shape behind handle b at position pos (doubled units)
calc_dist(b, pos) ==
  CASE shape[b] = "wall_x" -> 3 * agrid - pos[1]
    [] shape[b] = "wall_y" -> pos[2] - 3 * agrid
    [] OTHER -> Max2(Abs(pos[1] - agrid),
                     Max2(Abs(pos[2] - agrid), Abs(pos[3] - agrid))) - 2 * agrid

(***************************************************************************)
(* LBBoundaries::remove: std::remove followed by erase of the tail.        *)
(***************************************************************************)
RECURSIVE std_remove(_, _, _, _)
\* std::remove(first, last, b): every element that is not b is moved to the
\* front, in order; out is the kept prefix, i the read position (0-based)
std_remove(seq, b, i, out) ==
  IF i >= Len(seq) THEN out
  ELSE IF seq[i + 1] = b THEN std_remove(seq, b, i + 1, out)
       ELSE std_remove(seq, b, i + 1, Append(out, seq[i + 1]))

RECURSIVE erase_first_match(_, _)
\* variant: lbboundaries.erase(std::find(begin, end, b)), one entry only
erase_first_match(seq, b) ==
  IF seq = << >> THEN << >>
  ELSE IF Head(seq) = b THEN Tail(seq)
       ELSE <<Head(seq)>> \o erase_first_match(Tail(seq), b)

\* lbboundaries.erase(std::remove(begin, end, b), end)
erase_remove(seq, b) == std_remove(seq, b, 0, <<>>)

(***************************************************************************)
(* The sweep order and the scan for the nearest boundary.                  *)
(***************************************************************************)
\* the loop nest "for z / for y / for x": the coordinates of the s-th node
\* visited in a grid of extent dims (x runs fastest, z slowest)
sweep_coords(s, dims) ==
  << s % dims[1], (s \div dims[1]) % dims[2], s \div (dims[1] * dims[2]) >>

\* variant: "dist_tmp <= dist", a later boundary takes over on a tie
cpu_improves_or_equal(dist_tmp, dist) == dist_tmp <= dist

\* CPU: "dist_tmp < dist"
cpu_improves(dist_tmp, dist) == dist_tmp < dist

\* variant: "dist >= dist_tmp", a later boundary takes over on a tie
gpu_improves_or_equal(dist, dist_tmp) == dist >= dist_tmp

\* GPU: "dist > dist_tmp"
gpu_improves(dist, dist_tmp) == dist > dist_tmp

RECURSIVE scan_cpu(_, _, _, _, _)
\* CPU: the loop over lbboundaries at one node; returns <<dist, the_boundary>>
scan_cpu(reg, pos, n, dist, the_boundary) ==
  IF n >= Len(reg) THEN <<dist, the_boundary>>
  ELSE LET dist_tmp == calc_dist(reg[n + 1], pos)
       IN IF cpu_improves(dist_tmp, dist) \/ n = 0
          THEN scan_cpu(reg, pos, n + 1, dist_tmp, n)
          ELSE scan_cpu(reg, pos, n + 1, dist, the_boundary)

\* variant: "dist_tmp < 0", a node exactly on the surface collects nothing
ek_charge_at_strict(ek, b, dist_tmp) ==
  IF ek /\ dist_tmp < 0 /\ charge_density(b) # 0
  THEN charge_density(b) * agrid * agrid * agrid
  ELSE 0

\* EK: the charge one registry entry collects at one node
ek_charge_at(ek, b, dist_tmp) ==
  IF ek /\ dist_tmp <= 0 /\ charge_density(b) # 0
  THEN charge_density(b) * agrid * agrid * agrid
  ELSE 0

RECURSIVE scan_gpu(_, _, _, _, _, _, _)
\* GPU: the loop over lbboundaries at one node, with the EK accumulation;
\* returns <<dist, boundary_number, net_charge>>
scan_gpu(reg, pos, ek, n, dist, boundary_number, nc) ==
  IF n >= Len(reg) THEN <<dist, boundary_number, nc>>
  ELSE LET b == reg[n + 1]
           dist_tmp == calc_dist(b, pos)
           nc2 == [nc EXCEPT ![b] = nc[b] + ek_charge_at(ek, b, dist_tmp)]
       IN IF gpu_improves(dist, dist_tmp) \/ n = 0
          THEN scan_gpu(reg, pos, ek, n + 1, dist_tmp, n, nc2)
          ELSE scan_gpu(reg, pos, ek, n + 1, dist, boundary_number, nc2)

(***************************************************************************)
(* lb_init_boundaries, CPU branch (one rank).                              *)
(***************************************************************************)
\* offset[i] = node_pos[i] * lblattice.grid[i]
offset(rank) == [i \in 1..3 |-> calc_node_pos(rank)[i] * grid[i]]

\* pos[i] = (offset[i] + (x - 0.5)) * agrid, doubled
pos_cpu(rank, c) == [i \in 1..3 |-> (2 * offset(rank)[i] + 2 * c[i] - 1) * agrid]

\* velocity() * (lb_lbfluid_get_tau() / lb_lbfluid_get_agrid())
slip_of(b) == [i \in 1..3 |-> (velocity(b)[i] * tau) \div agrid]

\* "for n < halo_grid_volume: lbfields.at(n).boundary = 0"
reset_fields(fields) ==
  [n \in 0..(halo_grid_volume - 1) |-> [fields[n] EXCEPT !.boundary = 0]]

\* variant: the 0-based position is stored
cpu_owner_value_zero_based(the_boundary) == the_boundary

\* the value stored in node.boundary for owner the_boundary
cpu_owner_value(the_boundary) == the_boundary + 1

\* the_boundary is declared once, before the loops: a node's scan starts
\* from the value the previous node left (-1 before the first node). The
\* scan assigns it at n = 0, so with a non-empty registry the previous
\* node left its own nearest boundary, and with an empty one nothing ever
\* assigned it.
the_boundary_before(reg, rank, s) ==
  IF s = 0 \/ reg = << >> THEN -1
  ELSE scan_cpu(reg, pos_cpu(rank, sweep_coords(s - 1, halo_grid)), 0, dist_init, -1)[2]

\* the sweep step that visits the node stored at a linear index
step_of_index ==
  [index \in 0..(halo_grid_volume - 1) |->
     CHOOSE s \in 0..(halo_grid_volume - 1) :
       LET c == sweep_coords(s, halo_grid)
       IN get_linear_index(c[1], c[2], c[3], halo_grid) = index]

\* the classification of one node: node is lbfields[index] after the reset
classify_cpu(reg, node, dist, the_boundary) ==
  IF dist <= 0 /\ the_boundary >= 0 /\ reg # << >>
  THEN [boundary |-> cpu_owner_value(the_boundary),
        slip_velocity |-> slip_of(reg[the_boundary + 1])]
  ELSE [node EXCEPT !.boundary = 0]

\* the sweep over the halo grid of one rank: every node is visited once,
\* in the order of sweep_coords, and written at its linear index
sweep_cpu(reg, rank, fields) ==
  [index \in 0..(halo_grid_volume - 1) |->
     LET s == step_of_index[index]
         r == scan_cpu(reg, pos_cpu(rank, sweep_coords(s, halo_grid)), 0, dist_init,
                       the_boundary_before(reg, rank, s))
     IN classify_cpu(reg, fields[index], r[1], r[2])]

lb_init_boundaries_cpu(reg, fields, rank) ==
  IF halo_grid_volume = 0 THEN reset_fields(fields)
  ELSE sweep_cpu(reg, rank, reset_fields(fields))

(***************************************************************************)
(* lb_init_boundaries, GPU branch (the coordinating unit, this_node = 0).  *)
(***************************************************************************)
Range(seq) == {seq[i] : i \in 1..Len(seq)}

\* pos = agrid * ((x, y, z) + 0.5), doubled
pos_gpu(c) == [i \in 1..3 |-> agrid * (2 * c[i] + 1)]

\* variant: the row stride taken from the wrong axis
gpu_node_index_dim_y(c) == c[1] + dim_y * c[2] + dim_x * dim_y * c[3]

\* x + dim_x * y + dim_x * dim_y * z
gpu_node_index(c) == c[1] + dim_x * c[2] + dim_x * dim_y * c[3]

\* std::vector<int>::resize(n): kept prefix, new entries zero
resize(seq, n) ==
  IF n <= Len(seq) THEN SubSeq(seq, 1, n)
  ELSE seq \o [i \in 1..(n - Len(seq)) |-> 0]

\* variant: the net charges are not reset before the sweep
keep_net_charge(reg, nc) == nc

\* "for (auto &lbboundarie : lbboundaries) set_net_charge(0.0)"
reset_net_charge(reg, nc) ==
  [b \in Handles |-> IF b \in Range(reg) THEN 0 ELSE nc[b]]

\* charged_boundaries: some registered boundary has a charge density
charged_boundaries(reg) == \E i \in 1..Len(reg) : charge_density(reg[i]) # 0

RECURSIVE find_species(_, _)
\* wallcharge_species: the first species with a valency, -1 if none
find_species(val, n) ==
  IF n >= Len(val) THEN -1
  ELSE IF val[n + 1] # 0 THEN n ELSE find_species(val, n + 1)

\* variant: the test for a missing species is inverted
ek_setup_errors_inverted(reg, ek, val) ==
  IF ek /\ find_species(val, 0) # -1 /\ charged_boundaries(reg)
  THEN << "no charged species available to create wall charge" >>
  ELSE << >>

\* the messages of the EK setup
ek_setup_errors(reg, ek, val) ==
  IF ek /\ find_species(val, 0) = -1 /\ charged_boundaries(reg)
  THEN << "no charged species available to create wall charge" >>
  ELSE << >>

\* the node is appended to the two lists
append_boundnode(g, c, boundary_number) ==
  LET size_of_index == (g.number_of_boundnodes + 1) * SizeofInt
      nl == resize(g.node_list, size_of_index)
      il == resize(g.index_list, size_of_index)
  IN [g EXCEPT !.node_list = [nl EXCEPT ![g.number_of_boundnodes + 1] = gpu_node_index(c)],
               !.index_list = [il EXCEPT ![g.number_of_boundnodes + 1] = boundary_number + 1],
               !.number_of_boundnodes = g.number_of_boundnodes + 1]

RECURSIVE sweep_gpu(_, _, _, _)
\* the sweep over the global grid, from the s-th node on; g holds
\* number_of_boundnodes, the two lists, boundary_number and the net charges
sweep_gpu(reg, ek, s, g) ==
  IF s >= number_of_nodes THEN g
  ELSE LET c == sweep_coords(s, <<dim_x, dim_y, dim_z>>)
           r == scan_gpu(reg, pos_gpu(c), ek, 0, dist_init, g.boundary_number, g.net_charge)
           g1 == [g EXCEPT !.boundary_number = r[2], !.net_charge = r[3]]
       IN IF r[1] <= 0 /\ r[2] >= 0 /\ reg # << >>
          THEN sweep_gpu(reg, ek, s + 1, append_boundnode(g1, c, r[2]))
          ELSE sweep_gpu(reg, ek, s + 1, g1)

\* boundary_velocity: 3 * (size + 1) entries, the last three zero
velocity_table(reg) ==
  [j \in 1..(3 * (Len(reg) + 1)) |->
     IF j <= 3 * Len(reg) THEN velocity(reg[((j - 1) \div 3) + 1])[((j - 1) % 3) + 1]
     ELSE 0]

lb_init_boundaries_gpu(reg, ek, val, nc) ==
  LET g == sweep_gpu(reg, ek, 0,
                     [number_of_boundnodes |-> 0, node_list |-> <<>>,
                      index_list |-> <<>>, boundary_number |-> -1,
                      net_charge |-> reset_net_charge(reg, nc)])
  IN [number_of_boundnodes |-> g.number_of_boundnodes,
      node_list |-> g.node_list,
      index_list |-> g.index_list,
      net_charge |-> g.net_charge,
      boundary_velocity |-> velocity_table(reg),
      runtime_errors |-> ek_setup_errors(reg, ek, val)]

(***************************************************************************)
(* lb_init_boundaries on every unit: the CPU branch on each rank's own     *)
(* fields; the GPU branch on the coordinating unit only (every other unit  *)
(* returns at once); nothing with no active lattice.                       *)
(***************************************************************************)
lb_init_boundaries(reg) ==
  \E g \in {lb_init_boundaries_gpu(reg, ek_initialized, valency, net_charge)} :
     /\ lbfields' = IF lattice_switch = "CPU"
                    THEN [rank \in Ranks |-> lb_init_boundaries_cpu(reg, lbfields[rank], rank)]
                    ELSE lbfields
     /\ IF lattice_switch = "GPU"
        THEN /\ number_of_boundnodes' = g.number_of_boundnodes
             /\ host_boundary_node_list' = g.node_list
             /\ host_boundary_index_list' = g.index_list
             /\ boundary_velocity' = g.boundary_velocity
             /\ net_charge' = g.net_charge
             /\ runtime_errors' = g.runtime_errors
        ELSE /\ UNCHANGED <<number_of_boundnodes, host_boundary_node_list,
                            host_boundary_index_list, boundary_velocity, net_charge>>
             /\ runtime_errors' = << >>

\* on_lbboundary_change(): the re-classification a registry change triggers
on_lbboundary_change(reg) == lb_init_boundaries(reg)

(***************************************************************************)
(* lbboundary_get_force.                                                   *)
(***************************************************************************)
RECURSIVE find_if_no_end(_, _, _)
\* variant: a search that falls back to the first entry instead of end
find_if_no_end(reg, b, i) ==
  IF i >= Len(reg) THEN 0
  ELSE IF reg[i + 1] = b THEN i ELSE find_if_no_end(reg, b, i + 1)

RECURSIVE find_if(_, _, _)
\* std::find_if over the registry: the first position holding b, or end
find_if(reg, b, i) ==
  IF i >= Len(reg) THEN Len(reg)
  ELSE IF reg[i + 1] = b THEN i ELSE find_if(reg, b, i + 1)

\* the forces array after the backend filled it: zero-initialised, then
\* written by lb_gpu_get_boundary_forces / mpi_gather_stats (fill is what the
\* backend reports: entry j holds fill * (j + 1))
backend_forces(reg, fill) ==
  [j \in 0..(3 * Len(reg) - 1) |->
     IF lattice_switch \in {"GPU", "CPU"} THEN fill * (j + 1) ELSE 0]

lbboundary_get_force(reg, b, fill) ==
  LET it == find_if(reg, b, 0)
  IN IF it = Len(reg) THEN "unregistered"
     ELSE LET forces == backend_forces(reg, fill)
              container_index == it
          IN << forces[3 * container_index + 0],
                forces[3 * container_index + 1],
                forces[3 * container_index + 2] >>

(***************************************************************************)
(* The state machine.                                                      *)
(***************************************************************************)
\* lbfields is allocated (one default node per halo-grid cell) when the CPU
\* fluid is set up; without it the vector is empty
lbfields_size == IF lattice_switch = "CPU" THEN halo_grid_volume ELSE 0

Init ==
  /\ lattice_switch \in {"NONE", "CPU", "GPU"}
  /\ ek_initialized \in BOOLEAN
  /\ ek_initialized => lattice_switch = "GPU"
  /\ valency \in Valencies \cup {<< >>}
  /\ ek_initialized <=> valency # << >>
  /\ shape \in ShapeChoices
  /\ charge \in ChargeChoices
  /\ ~ek_initialized => charge = <<2, 1>>
  /\ lbboundaries = << >>
  /\ net_charge = [b \in Handles |-> 0]
  /\ lbfields = [rank \in Ranks |->
                   [n \in 0..(lbfields_size - 1) |->
                      [boundary |-> 0, slip_velocity |-> <<0, 0, 0>>]]]
  /\ number_of_boundnodes = 0
  /\ host_boundary_node_list = << >>
  /\ host_boundary_index_list = << >>
  /\ boundary_velocity = << >>
  /\ runtime_errors = << >>
  /\ last_call = <<"init", 0>>
  /\ result = "ok"

Config == <<lattice_switch, ek_initialized, valency, shape, charge>>

\* LBBoundaries::add
add(b) ==
  /\ Len(lbboundaries) < MaxBoundaries
  /\ lbboundaries' = Append(lbboundaries, b)
  /\ on_lbboundary_change(lbboundaries')
  /\ last_call' = <<"add", b>>
  /\ result' = "ok"
  /\ UNCHANGED Config

\* LBBoundaries::remove
remove(b) ==
  /\ lbboundaries' = erase_remove(lbboundaries, b)
  /\ on_lbboundary_change(lbboundaries')
  /\ last_call' = <<"remove", b>>
  /\ result' = "ok"
  /\ UNCHANGED Config

\* an explicit call of lb_init_boundaries
reclassify ==
  /\ lb_init_boundaries(lbboundaries)
  /\ last_call' = <<"lb_init_boundaries", 0>>
  /\ result' = "ok"
  /\ UNCHANGED <<lbboundaries, Config>>

\* a call of lbboundary_get_force
get_force(b, fill) ==
  /\ result' = lbboundary_get_force(lbboundaries, b, fill)
  /\ last_call' = <<"get_force", b>>
  /\ UNCHANGED <<lbboundaries, net_charge, lbfields, number_of_boundnodes,
                 host_boundary_node_list, host_boundary_index_list,
                 boundary_velocity, runtime_errors, Config>>

Next ==
  \/ \E b \in Handles : add(b)
  \/ \E b \in Handles : remove(b)
  \/ reclassify
  \/ \E b \in Handles, fill \in {0, 1} : get_force(b, fill)

Spec == Init /\ [][Next]_vars

(***************************************************************************)
(* Vocabulary of the properties.                                           *)
(***************************************************************************)
HaloCoords == (0..(halo_grid[1] - 1)) \X (0..(halo_grid[2] - 1)) \X (0..(halo_grid[3] - 1))
InteriorCoords == (1..grid[1]) \X (1..grid[2]) \X (1..grid[3])
GlobalCoords == (0..(dim_x - 1)) \X (0..(dim_y - 1)) \X (0..(dim_z - 1))

\* the linear index of a global node: x + dim_x*y + dim_x*dim_y*z
LinearIndex(c) == c[1] + dim_x * c[2] + dim_x * dim_y * c[3]

\* the distances the registry entries report at a position
Distances(reg, pos) == {calc_dist(reg[i], pos) : i \in 1..Len(reg)}

\* the numerically smallest distance (non-empty registry)
MinDist(reg, pos) ==
  CHOOSE d \in Distances(reg, pos) : \A e \in Distances(reg, pos) : d <= e

\* the earliest registry position (1-based) reporting the smallest distance
NearestIndex(reg, pos) ==
  CHOOSE i \in 1..Len(reg) :
    /\ calc_dist(reg[i], pos) = MinDist(reg, pos)
    /\ \A j \in 1..(i - 1) : calc_dist(reg[j], pos) # MinDist(reg, pos)

\* the classification a node at pos is meant to get: 0 for fluid
ExpectedOwner(reg, pos) ==
  IF reg = << >> THEN 0
  ELSE IF MinDist(reg, pos) <= 0 THEN NearestIndex(reg, pos) ELSE 0

\* the classification the GPU lists record for the node with linear index lin
GpuClass(n, node_list, index_list, lin) ==
  IF \E k \in 1..n : node_list[k] = lin
  THEN index_list[CHOOSE k \in 1..n : node_list[k] = lin]
  ELSE 0

\* the stored classification of the global node c on the GPU backend
GpuStored(c) ==
  GpuClass(number_of_boundnodes, host_boundary_node_list,
           host_boundary_index_list, LinearIndex(c))

\* the stored classification of the local node c of a rank on the CPU backend
CpuStored(rank, c) ==
  lbfields[rank][get_linear_index(c[1], c[2], c[3], halo_grid)].boundary

\* the global node behind an interior local node: offset + local - 1
GlobalOf(rank, c) == [i \in 1..3 |-> offset(rank)[i] + c[i] - 1]

\* the classification every backend holds, and the outcome of the latest pass
Classification ==
  <<lbfields, number_of_boundnodes, host_boundary_node_list, host_boundary_index_list>>

CellVolume == agrid * agrid * agrid

\* some registry entry ties with an earlier one at the smallest distance, <= 0
TieAt(reg, pos) ==
  /\ reg # << >>
  /\ MinDist(reg, pos) <= 0
  /\ \E i, j \in 1..Len(reg) :
       /\ i < j
       /\ calc_dist(reg[i], pos) = MinDist(reg, pos)
       /\ calc_dist(reg[j], pos) = MinDist(reg, pos)

(***************************************************************************)
(* C1 (as stated): remove(b) deletes exactly the first occurrence of b.    *)
(***************************************************************************)
RECURSIVE RemoveFirst(_, _)
RemoveFirst(seq, b) ==
  IF seq = << >> THEN << >>
  ELSE IF Head(seq) = b THEN Tail(seq)
       ELSE <<Head(seq)>> \o RemoveFirst(Tail(seq), b)

\* C1, original statement: after remove(b) the registry is the old sequence
\* with exactly the first occurrence of b deleted.
C1_RemoveFirstOnly ==
  [][\A b \in Handles :
       last_call' = <<"remove", b>> => lbboundaries' = RemoveFirst(lbboundaries, b)]_vars

\* C1, amended: after remove(b) the registry is the old sequence with every
\* occurrence of b deleted, all other entries kept in their relative order
\* (unchanged when b is absent).
C1_RemoveAll ==
  [][\A b \in Handles :
       last_call' = <<"remove", b>> =>
         lbboundaries' = SelectSeq(lbboundaries, LAMBDA e : e # b)]_vars

\* the net charge handle b collected in a pass in which it was registered k times
ChargeOf(b, k) ==
  k * CellVolume * charge[b] *
    Cardinality({c \in GlobalCoords : calc_dist(b, pos_gpu(c)) <= 0})

\* C1 witness: handle 1 has just been removed after a pass in which it was
\* registered twice (its net charge still shows the double count), and the
\* other handle stays registered.
C1_Witness ==
  /\ last_call = <<"remove", 1>>
  /\ lattice_switch = "GPU" /\ ek_initialized
  /\ lbboundaries = <<2>>
  /\ ChargeOf(1, 1) > 0
  /\ net_charge[1] = ChargeOf(1, 2)

(***************************************************************************)
(* C2: with an empty registry every node is fluid with zero slip velocity. *)
(***************************************************************************)
\* C2: after a pass that leaves the registry empty, every node has
\* boundary = 0 and slip velocity (0,0,0).
C2_EmptyRegistryAllFluidNoSlip ==
  (/\ lbboundaries = << >>
   /\ last_call[1] \in {"add", "remove", "lb_init_boundaries"})
  => /\ number_of_boundnodes = 0
     /\ \A rank \in Ranks : \A n \in DOMAIN lbfields[rank] :
          /\ lbfields[rank][n].boundary = 0
          /\ lbfields[rank][n].slip_velocity = <<0, 0, 0>>

(***************************************************************************)
(* C3: the owner is the nearest boundary, earliest index on ties.          *)
(***************************************************************************)
\* C3: with a non-empty registry every node stores the 1-based index of the
\* boundary with the smallest distance (the earliest on exact ties) when
\* that distance is <= 0, and 0 otherwise, on both backends.
C3_NearestBoundaryOwns ==
  lbboundaries # << >> =>
    /\ lattice_switch = "CPU" =>
         \A rank \in Ranks : \A c \in HaloCoords :
           CpuStored(rank, c) = ExpectedOwner(lbboundaries, pos_cpu(rank, c))
    /\ lattice_switch = "GPU" =>
         \A c \in GlobalCoords :
           GpuStored(c) = ExpectedOwner(lbboundaries, pos_gpu(c))

\* C3 witness: on the CPU backend two different boundaries report the same
\* smallest distance <= 0 at a node, and the earlier one owns it.
C3_Witness ==
  /\ lattice_switch = "CPU"
  /\ Len(lbboundaries) >= 2
  /\ lbboundaries[1] # lbboundaries[2]
  /\ \E rank \in Ranks : \E c \in HaloCoords :
       /\ TieAt(lbboundaries, pos_cpu(rank, c))
       /\ calc_dist(lbboundaries[1], pos_cpu(rank, c)) = calc_dist(lbboundaries[2], pos_cpu(rank, c))
       /\ CpuStored(rank, c) = 1

(***************************************************************************)
(* C4: the net charge of a boundary under electrokinetics.                 *)
(***************************************************************************)
NoDuplicates(reg) == \A i, j \in 1..Len(reg) : reg[i] = reg[j] => i = j

\* the number of nodes the GPU lists record as owned by handle b
OwnedNodes(b) ==
  Cardinality({k \in 1..number_of_boundnodes :
                 lbboundaries[host_boundary_index_list[k]] = b})

\* the (registry entry, node) pairs in which the entry is handle b and b
\* reports a distance <= 0 at the node
CoveredPairs(reg, b) ==
  {p \in (1..Len(reg)) \X GlobalCoords :
     reg[p[1]] = b /\ calc_dist(b, pos_gpu(p[2])) <= 0}

\* C4, original statement (every boundary registered once): the net charge
\* of a registered boundary is (nodes it owns) x cell volume x its charge
\* density, so a node adds charge to its owner only.
C4_ChargeFromOwnedNodesOnly ==
  (lattice_switch = "GPU" /\ ek_initialized /\ NoDuplicates(lbboundaries))
  => \A b \in Range(lbboundaries) :
       net_charge[b] = OwnedNodes(b) * CellVolume * charge[b]

\* C4, amended: with electrokinetics active the net charge of a registered
\* boundary is cell volume x its charge density x the number of (registry
\* entry, node) pairs in which the entry is that boundary and it reports a
\* distance <= 0 at the node, whether or not it owns the node.
C4_ChargeFromCoveredNodes ==
  (lattice_switch = "GPU" /\ ek_initialized)
  => \A b \in Range(lbboundaries) :
       net_charge[b] = Cardinality(CoveredPairs(lbboundaries, b)) * CellVolume * charge[b]

\* C4 witness: two charged boundaries, each registered once, overlap at a
\* node; the one that does not own it has collected its charge there too.
C4_Witness ==
  /\ lattice_switch = "GPU" /\ ek_initialized
  /\ Len(lbboundaries) = 2 /\ NoDuplicates(lbboundaries)
  /\ charge[1] # 0 /\ charge[2] # 0
  /\ \E c \in GlobalCoords :
       /\ calc_dist(1, pos_gpu(c)) <= 0
       /\ calc_dist(2, pos_gpu(c)) <= 0
  /\ \E b \in Handles :
       net_charge[b] > OwnedNodes(b) * CellVolume * charge[b]

(***************************************************************************)
(* C5: the force query on an unregistered boundary.                        *)
(***************************************************************************)
\* C5: a force query on a handle that is not in the registry ends with the
\* unregistered-boundary error and leaves the registry and every node
\* classification unchanged, whatever the backend.
C5_GetForceUnregisteredFails ==
  [][\A b \in Handles :
       (last_call' = <<"get_force", b>> /\ b \notin Range(lbboundaries))
       => /\ result' = "unregistered"
          /\ lbboundaries' = lbboundaries
          /\ Classification' = Classification]_vars

\* C5 witness: handle 1 was registered (its net charge shows a pass counted
\* it), has been removed, and the query on it has just failed while another
\* boundary is registered.
C5_Witness ==
  /\ last_call = <<"get_force", 1>>
  /\ result = "unregistered"
  /\ lbboundaries = <<2>>
  /\ lattice_switch = "GPU" /\ ek_initialized
  /\ net_charge[1] > 0

(***************************************************************************)
(* C6: stored owners refer to the current numbering of the registry.       *)
(***************************************************************************)
\* C6: on an active backend every stored classification k is within
\* 0..N (N the registry size), and for k > 0 the boundary at registry
\* position k-1 (0-based) reports a distance <= 0 at that node.
C6_NoStaleOwner ==
  /\ lattice_switch = "CPU" =>
       \A rank \in Ranks : \A c \in HaloCoords :
         LET k == CpuStored(rank, c)
         IN /\ k \in 0..Len(lbboundaries)
            /\ k > 0 => calc_dist(lbboundaries[k], pos_cpu(rank, c)) <= 0
  /\ lattice_switch = "GPU" =>
       \A c \in GlobalCoords :
         LET k == GpuStored(c)
         IN /\ k \in 0..Len(lbboundaries)
            /\ k > 0 => calc_dist(lbboundaries[k], pos_gpu(c)) <= 0
  /\ lattice_switch = "GPU" =>
       \A j \in 1..number_of_boundnodes :
         \E c \in GlobalCoords :
           /\ host_boundary_node_list[j] = LinearIndex(c)
           /\ host_boundary_index_list[j] = GpuStored(c)

\* C6 witness: handle 1 was registered and counted by a pass, then
\* removed; handle 2 is what is left and owns a node under index 1.
C6_Witness ==
  /\ last_call = <<"remove", 1>>
  /\ lattice_switch = "GPU" /\ ek_initialized
  /\ net_charge[1] > 0
  /\ 2 \in Range(lbboundaries)
  /\ \E c \in GlobalCoords : GpuStored(c) = 1

(***************************************************************************)
(* C7: a pass repeated without a registry change changes nothing.          *)
(***************************************************************************)
\* a pass has run since the registry last changed
PassDone ==
  \/ last_call[1] \in {"add", "remove", "lb_init_boundaries"}
  \/ lbboundaries # << >>

\* C7: an explicit pass that follows a pass with no add or remove in
\* between leaves every node classification and every net charge as the
\* earlier pass left them.
C7_ReclassifyIdempotent ==
  [][(PassDone /\ last_call' = <<"lb_init_boundaries", 0>>)
      => /\ Classification' = Classification
         /\ net_charge' = net_charge]_vars

\* C7 witness: an explicit pass has just run over a registry whose change
\* already ran one, with boundary nodes found and charge collected.
C7_Witness ==
  /\ last_call = <<"lb_init_boundaries", 0>>
  /\ lbboundaries # << >>
  /\ lattice_switch = "GPU" /\ ek_initialized
  /\ number_of_boundnodes > 0
  /\ \E b \in Range(lbboundaries) : net_charge[b] > 0

(***************************************************************************)
(* C8: the two backends classify alike.                                    *)
(***************************************************************************)
\* the lbfields of a freshly set up CPU fluid
FreshFields ==
  [n \in 0..(halo_grid_volume - 1) |-> [boundary |-> 0, slip_velocity |-> <<0, 0, 0>>]]

\* the owner the CPU sweep of a rank gives the interior local node c
CpuSweepOwner(reg, rank, c) ==
  lb_init_boundaries_cpu(reg, FreshFields, rank)[
    get_linear_index(c[1], c[2], c[3], halo_grid)].boundary

\* the owner the GPU sweep records for the global node c
GpuSweepOwner(reg, c) ==
  LET g == lb_init_boundaries_gpu(reg, FALSE, << >>, net_charge)
  IN GpuClass(g.number_of_boundnodes, g.node_list, g.index_list, LinearIndex(c))

\* C8: for the current registry, every interior node of every rank has on
\* the CPU backend the owner the GPU backend records for the global node
\* offset + local - 1 (absent from the lists meaning fluid): what the CPU
\* backend stored equals what the GPU sweep computes, and what the GPU
\* backend stored equals what the CPU sweep computes.
C8_BackendsAgree ==
  /\ lattice_switch = "CPU" =>
       \A rank \in Ranks : \A c \in InteriorCoords :
         CpuStored(rank, c) = GpuSweepOwner(lbboundaries, GlobalOf(rank, c))
  /\ lattice_switch = "GPU" =>
       \A rank \in Ranks : \A c \in InteriorCoords :
         CpuSweepOwner(lbboundaries, rank, c) = GpuStored(GlobalOf(rank, c))

\* C8 witness: on the GPU backend an interior node of the second rank is
\* owned by the first of two different boundaries that tie there, and
\* another interior node is fluid.
C8_Witness ==
  /\ lattice_switch = "GPU"
  /\ Len(lbboundaries) >= 2
  /\ lbboundaries[1] # lbboundaries[2]
  /\ \E c \in InteriorCoords :
       /\ TieAt(lbboundaries, pos_gpu(GlobalOf(1, c)))
       /\ calc_dist(lbboundaries[1], pos_gpu(GlobalOf(1, c)))
            = calc_dist(lbboundaries[2], pos_gpu(GlobalOf(1, c)))
       /\ GpuStored(GlobalOf(1, c)) = 1
  /\ \E rank \in Ranks : \E c \in InteriorCoords : GpuStored(GlobalOf(rank, c)) = 0

(***************************************************************************)
(* C9: charged boundaries without a charge-carrying species.               *)
(***************************************************************************)
\* electrokinetics is active, a registered boundary is charged and no
\* species has a valency
NoCarrierForCharge ==
  /\ lattice_switch = "GPU" /\ ek_initialized
  /\ \E b \in Range(lbboundaries) : charge[b] # 0
  /\ \A i \in 1..Len(valency) : valency[i] = 0

\* C9: in that configuration the pass reports the configuration error
\* exactly once, and the lists it leaves are those of the same sweep with a
\* charge-carrying species present (where no error arises).
C9_ConfigErrorOnceSweepCompletes ==
  NoCarrierForCharge =>
    /\ Len(runtime_errors) = 1
    /\ LET g == lb_init_boundaries_gpu(lbboundaries, TRUE, <<1>>, net_charge)
       IN /\ g.runtime_errors = << >>
          /\ number_of_boundnodes = g.number_of_boundnodes
          /\ host_boundary_node_list = g.node_list
          /\ host_boundary_index_list = g.index_list
    /\ \A c \in GlobalCoords : GpuStored(c) = ExpectedOwner(lbboundaries, pos_gpu(c))

\* C9 witness: the error configuration with boundary nodes found, some
\* owned by a charged boundary.
C9_Witness ==
  /\ NoCarrierForCharge
  /\ number_of_boundnodes > 0
  /\ number_of_boundnodes < number_of_nodes
  /\ \E k \in 1..number_of_boundnodes :
       charge[lbboundaries[host_boundary_index_list[k]]] # 0

(***************************************************************************)
(* C10: the compacted lists of the GPU backend.                            *)
(***************************************************************************)
\* the global nodes whose nearest boundary is at a distance <= 0
BoundaryNodes(reg) == {c \in GlobalCoords : ExpectedOwner(reg, pos_gpu(c)) > 0}

\* C10: on the GPU backend the number of boundary nodes is the number of
\* global nodes whose nearest-boundary distance is <= 0; the first that
\* many entries of the node list are the linear indices of exactly those
\* nodes in strictly increasing order, and the ownership list holds at the
\* same position the 1-based index of the boundary owning the node.
C10_CompactedLists ==
  lattice_switch = "GPU" =>
    LET n == number_of_boundnodes
        B == BoundaryNodes(lbboundaries)
    IN /\ n = Cardinality(B)
       /\ Len(host_boundary_node_list) >= n
       /\ Len(host_boundary_index_list) >= n
       /\ {host_boundary_node_list[k] : k \in 1..n} = {LinearIndex(c) : c \in B}
       /\ \A k \in 1..(n - 1) : host_boundary_node_list[k] < host_boundary_node_list[k + 1]
       /\ \A k \in 1..n : \A c \in B :
            host_boundary_node_list[k] = LinearIndex(c)
            => host_boundary_index_list[k] = ExpectedOwner(lbboundaries, pos_gpu(c))

\* C10 witness: some but not all global nodes are boundary nodes, two
\* different owners occur, and listed nodes differ in y and in z.
C10_Witness ==
  /\ lattice_switch = "GPU"
  /\ number_of_boundnodes >= 3
  /\ number_of_boundnodes < number_of_nodes
  /\ \E j, k \in 1..number_of_boundnodes :
       host_boundary_index_list[j] # host_boundary_index_list[k]
  /\ \E c, d \in BoundaryNodes(lbboundaries) : c[2] # d[2] /\ c[3] # d[3]

====
